---- MODULE Spec2Model ----
(***************************************************************************)
(* Model of cs230-code-examples (NER): the tf.data input pipeline of       *)
(* input_data.py and the epoch / checkpoint loop of train.py.              *)
(*                                                                         *)
(* Accuracies are integers in tenths (9 stands for 0.9).  Model weights    *)
(* are abstracted to the value they were initialised from and the number   *)
(* of training updates applied since.                                      *)
(***************************************************************************)
EXTENDS Integers, Sequences, FiniteSets

\* ------------------------------------------------------------------ bounds
MaxEpochs == 5          \* params.num_epochs ranges over 0..MaxEpochs (Spec)
MaxRotationEpochs == 7  \* params.num_epochs ranges over 0..MaxRotationEpochs (SpecRotation)
MaxSize == 11           \* params.train_size / eval_size range over 0..MaxSize (SpecSteps)
MaxBatchSize == 5       \* params.batch_size ranges over 1..MaxBatchSize (SpecSteps)
MaxLines == 3           \* the text files hold 0..MaxLines lines (SpecBatch)
MaxPipeLines == 4       \* the text files hold 0..MaxPipeLines lines (SpecPipe)
MaxPipeBatch == 2       \* input_fn's batch_size ranges over 1..MaxPipeBatch
MaxBufferSize == 3      \* training shuffle buffers 1..MaxBufferSize besides 100
MaxInits == 2           \* iterator initialisations (epochs) of one pipeline
MaxSummarySteps == 3    \* params.save_summary_steps ranges over 1..MaxSummarySteps (SpecSteps)

\* ------------------------------------------------------- program constants
MaxToKeepLast == 5      \* tf.train.Saver() default max_to_keep
MaxToKeepBestTwo == 1 + 1
MaxToKeepBest == 1      \* tf.train.Saver(max_to_keep=1)
InputBatchSize == 5     \* input_fn(..., batch_size=5, ...): train.py never overrides it
TrainBufferSize == 100  \* buffer_size = 100 if is_training
EvalBufferSize == 1     \* ... else 1
PrefetchBufferSizeTwo == 1 + 1
PrefetchBufferSize == 1 \* .prefetch(1)
WordsOovBuckets == 1    \* index_table_from_file(path_vocab_words, num_oov_buckets=1)
TagsOovBuckets == 0     \* index_table_from_file(path_vocab_tags): no OOV bucket
DefaultValue == -1      \* index_table_from_file's default_value for a missing key

None == "None"
\* no metrics computed / no file written yet
NoMetrics == [accuracy |-> -1, epoch |-> 0]

\* eval accuracies the evaluator may report, in tenths
Accuracies == {0, 5, 6, 7, 8, 9, 10}
CoarseAccuracies == {0, 10}

VARIABLES
  pc,            \* position of train_and_evaluate
  restore_dir,   \* args.restore_dir: None, or a directory holding a checkpoint
  num_epochs,    \* params.num_epochs
  train_size,    \* params.train_size (= number of lines of the train files)
  eval_size,     \* params.eval_size
  batch_size,    \* params.batch_size
  weights,       \* the session's model variables
  epoch,         \* loop variable of `for epoch in range(params.num_epochs)`
  num_steps,     \* local num_steps
  i,             \* loop variable of the step loop in train / evaluate
  it_left,       \* batches the initialised iterator can still deliver
  best_eval_acc, \* local best_eval_acc
  metrics,       \* result of evaluate() for the current epoch
  last_ckpts,    \* checkpoints retained by last_saver, oldest first
  best_ckpts,    \* checkpoints retained by best_saver, oldest first
  best_json,     \* contents of metrics_eval_best_weights.json
  last_json,     \* contents of metrics_eval_last_weights.json
  accs,          \* history: eval accuracy of every evaluated epoch
  error,         \* the exception that aborted the run, or None
  save_summary_steps, \* params.save_summary_steps
  summaries,     \* what train_writer received during the current call of train
  metric_count,  \* update_metrics runs since the last metrics_init_op
  log,           \* history: the stages the run has completed, in order
  \* ---- one input pipeline built by input_fn and its initialisable iterator
  sentences_file, \* lines of the sentences file, each a sequence of characters
  tags_file,      \* lines of the tags file
  pipe_batch_size,\* input_fn's batch_size
  is_training,    \* input_fn's is_training
  buffer_size,    \* shuffle buffer size
  it_inits,       \* how often iterator_init_op has run
  up_pos,         \* batches the shuffle stage has pulled from padded_batch
  reservoir,      \* the shuffle buffer: a set of batches
  slot,           \* the prefetch buffer: batches produced and not yet taken
  prod_done,      \* the prefetch thread has seen the end of the sequence
  out,            \* batches get_next has delivered since the last initialisation
  it_end,         \* get_next has raised OutOfRangeError
  prev_consumed,  \* history: how many batches the previous iterator had delivered
  shuffled,       \* history: the batches the shuffle stage handed out, in order
  upstream        \* the elements padded_batch yields to the current iterator

orch_vars == <<pc, restore_dir, num_epochs, train_size, eval_size, batch_size,
               weights, epoch, num_steps, i, it_left, best_eval_acc, metrics,
               last_ckpts, best_ckpts, best_json, last_json, accs, error,
               save_summary_steps, summaries, metric_count, log>>

pipe_vars == <<sentences_file, tags_file, pipe_batch_size, is_training,
               buffer_size, it_inits, up_pos, reservoir, slot, prod_done, out,
               it_end, prev_consumed, shuffled, upstream>>

vars == <<orch_vars, pipe_vars>>

\* ----------------------------------------------------------- pure helpers
Max(S) == CHOOSE x \in S : \A y \in S : y <= x

CeilDiv(n, b) == (n + b - 1) \div b

NumStepsCeil(size, bsize) == CeilDiv(size, bsize)

\* num_steps = (params.train_size + 1) // params.batch_size
NumSteps(size, bsize) == (size + 1) \div bsize

NumBatchesDropRemainder(n, bsize) == n \div bsize

\* number of elements dataset.padded_batch(batch_size) yields for n examples:
\* full batches and a final smaller one (drop_remainder is not set)
NumBatches(n, bsize) == CeilDiv(n, bsize)

SaverSaveKeepAll(ckpts, k, ckpt) == Append(ckpts, ckpt)

\* tf.train.Saver.save with max_to_keep = k: the new checkpoint becomes the
\* most recent one and the oldest are deleted while more than k are kept
SaverSave(ckpts, k, ckpt) ==
  LET all == Append(SelectSeq(ckpts, LAMBDA c : c.tag # ckpt.tag), ckpt)
  IN  IF Len(all) > k THEN SubSeq(all, Len(all) - k + 1, Len(all)) ELSE all

\* an entry of the history of completed stages
Stage(name, e) == [stage |-> name, epoch |-> e]

Uninitialised == [base |-> "uninitialised", updates |-> 0]
FreshWeights == [base |-> "fresh", updates |-> 0]
\* what tf.train.latest_checkpoint(restore_dir) holds
RestoredWeights == [base |-> "restored", updates |-> 0]

\* ------------------------------------------------ train_and_evaluate
\* The configuration a run starts from; sizes and epochs are supplied by
\* the specification.
OrchInit(epochs, tsizes, esizes, bsizes, sumsteps) ==
  /\ pc = "Start"
  /\ save_summary_steps \in sumsteps
  /\ summaries = <<>>
  /\ metric_count = 0
  /\ log = <<>>
  /\ restore_dir \in {None, "restore_dir"}
  /\ num_epochs \in epochs
  /\ train_size \in tsizes
  /\ eval_size \in esizes
  /\ batch_size \in bsizes
  /\ weights = Uninitialised
  /\ epoch = 0
  /\ num_steps = 0
  /\ i = 0
  /\ it_left = 0
  /\ best_eval_acc = 0
  /\ metrics = NoMetrics
  /\ last_ckpts = <<>>
  /\ best_ckpts = <<>>
  /\ best_json = NoMetrics
  /\ last_json = NoMetrics
  /\ accs = <<>>
  /\ error = None

\* reload weights from directory if specified
RestoreIfRequested ==
  /\ pc = "Start"
  /\ weights' = IF restore_dir # None THEN RestoredWeights ELSE weights
  /\ pc' = "InitVariables"
  /\ log' = IF restore_dir # None THEN Append(log, Stage("Restore", 0)) ELSE log
  /\ UNCHANGED <<summaries, metric_count>>
  /\ UNCHANGED pipe_vars
  /\ UNCHANGED <<save_summary_steps, restore_dir, num_epochs, train_size,
                 eval_size, batch_size,
                 epoch, num_steps, i, it_left, best_eval_acc, metrics,
                 last_ckpts, best_ckpts, best_json, last_json, accs, error>>

\* what sess.run(train_model_spec['variable_init_op']) leaves in the session:
\* every model variable is assigned its initial value
VariableInit(w) == FreshWeights

\* "Initialize model variables", then best_eval_acc = 0.0
InitVariables ==
  /\ pc = "InitVariables"
  /\ weights' = VariableInit(weights)
  /\ best_eval_acc' = 0
  /\ epoch' = 0
  /\ pc' = "EpochLoop"
  /\ UNCHANGED <<summaries, metric_count, log>>
  /\ UNCHANGED pipe_vars
  /\ UNCHANGED <<save_summary_steps, restore_dir, num_epochs, train_size,
                 eval_size, batch_size,
                 num_steps, i, it_left, metrics,
                 last_ckpts, best_ckpts, best_json, last_json, accs, error>>

\* loop head with another epoch to run: num_steps is computed and train()
\* initialises the training iterator and the metrics
BeginTrain ==
  /\ pc = "EpochLoop"
  /\ epoch < num_epochs
  /\ num_steps' = NumSteps(train_size, batch_size)
  /\ it_left' = NumBatches(train_size, InputBatchSize)
  /\ i' = 0
  /\ pc' = "Train"
  /\ summaries' = <<>>
  /\ metric_count' = 0
  /\ UNCHANGED log
  /\ UNCHANGED pipe_vars
  /\ UNCHANGED <<save_summary_steps, restore_dir, num_epochs, train_size,
                 eval_size, batch_size,
                 weights, epoch, best_eval_acc, metrics,
                 last_ckpts, best_ckpts, best_json, last_json, accs, error>>

\* tf.train.get_global_step(): the step counter is one of the model
\* variables, initialised with them and advanced by every train_op
GlobalStep(w) == w.updates

\* the value of global_step a sess.run fetches together with train_op: no
\* control dependency orders the read and the increment, so it is the value
\* before or after this step's update
FetchedGlobalStep(w) == {GlobalStep(w), GlobalStep(w) + 1}

IsSummaryStepOneBased(step, every) == (step + 1) % every = 0

\* if i % params.save_summary_steps == 0
IsSummaryStep(step, every) == step % every = 0

Swallow(at) == at

\* where control goes when a statement at position `at` raises: nothing in
\* train, evaluate or train_and_evaluate catches, so the run is over
Propagate(at) == "Failed"

\* one iteration of `for i in t`: sess.run([train_op, update_metrics, loss])
\* pulls the next batch; an exhausted iterator raises OutOfRangeError, which
\* nothing catches
TrainStep ==
  /\ pc = "Train"
  /\ i < num_steps
  /\ IF it_left > 0
       THEN /\ it_left' = it_left - 1
            /\ weights' = [weights EXCEPT !.updates = @ + 1]
            /\ metric_count' = metric_count + 1
            /\ IF IsSummaryStep(i, save_summary_steps)
                 THEN \E g \in FetchedGlobalStep(weights) :
                        summaries' = Append(summaries, [i |-> i, global_step |-> g])
                 ELSE UNCHANGED summaries
            /\ i' = i + 1
            /\ UNCHANGED <<pc, error>>
       ELSE /\ pc' = Propagate(pc)
            /\ error' = "OutOfRange"
            /\ UNCHANGED <<it_left, weights, i, metric_count, summaries>>
  /\ UNCHANGED log
  /\ UNCHANGED pipe_vars
  /\ UNCHANGED <<save_summary_steps, restore_dir, num_epochs, train_size,
                 eval_size, batch_size,
                 epoch, num_steps, best_eval_acc, metrics,
                 last_ckpts, best_ckpts, best_json, last_json, accs>>

EndTrainSkipSave ==
  /\ pc = "Train"
  /\ i = num_steps
  /\ pc' = "BeginEval"
  /\ log' = Append(log, Stage("TrainEpoch", epoch + 1))
  /\ UNCHANGED <<summaries, metric_count>>
  /\ UNCHANGED pipe_vars
  /\ UNCHANGED <<save_summary_steps, restore_dir, num_epochs, train_size,
                 eval_size, batch_size,
                 weights, epoch, num_steps, i, it_left, best_eval_acc, metrics,
                 last_ckpts, best_ckpts, best_json, last_json, accs, error>>

\* the step loop is over: train metrics are logged and train() returns
EndTrain ==
  /\ pc = "Train"
  /\ i = num_steps
  /\ pc' = "SaveLast"
  /\ log' = Append(log, Stage("TrainEpoch", epoch + 1))
  /\ UNCHANGED <<summaries, metric_count>>
  /\ UNCHANGED pipe_vars
  /\ UNCHANGED <<save_summary_steps, restore_dir, num_epochs, train_size,
                 eval_size, batch_size,
                 weights, epoch, num_steps, i, it_left, best_eval_acc, metrics,
                 last_ckpts, best_ckpts, best_json, last_json, accs, error>>

\* last_saver.save(sess, last_save_path, global_step=epoch + 1)
SaveLast ==
  /\ pc = "SaveLast"
  /\ last_ckpts' = SaverSave(last_ckpts, MaxToKeepLast,
                             [tag |-> epoch + 1, state |-> weights])
  /\ pc' = "BeginEval"
  /\ log' = Append(log, Stage("SaveLast", epoch + 1))
  /\ UNCHANGED <<summaries, metric_count>>
  /\ UNCHANGED pipe_vars
  /\ UNCHANGED <<save_summary_steps, restore_dir, num_epochs, train_size,
                 eval_size, batch_size,
                 weights, epoch, num_steps, i, it_left, best_eval_acc, metrics,
                 best_ckpts, best_json, last_json, accs, error>>

\* num_steps for the validation set; evaluate() initialises the eval iterator
BeginEval ==
  /\ pc = "BeginEval"
  /\ num_steps' = NumSteps(eval_size, batch_size)
  /\ it_left' = NumBatches(eval_size, InputBatchSize)
  /\ i' = 0
  /\ pc' = "Eval"
  /\ metric_count' = 0
  /\ UNCHANGED <<summaries, log>>
  /\ UNCHANGED pipe_vars
  /\ UNCHANGED <<save_summary_steps, restore_dir, num_epochs, train_size,
                 eval_size, batch_size,
                 weights, epoch, best_eval_acc, metrics,
                 last_ckpts, best_ckpts, best_json, last_json, accs, error>>

\* one evaluation step: pulls a batch, updates the metrics, leaves the weights
EvalStep ==
  /\ pc = "Eval"
  /\ i < num_steps
  /\ IF it_left > 0
       THEN /\ it_left' = it_left - 1
            /\ metric_count' = metric_count + 1
            /\ i' = i + 1
            /\ UNCHANGED <<pc, error>>
       ELSE /\ pc' = Propagate(pc)
            /\ error' = "OutOfRange"
            /\ UNCHANGED <<it_left, i, metric_count>>
  /\ UNCHANGED <<summaries, log>>
  /\ UNCHANGED pipe_vars
  /\ UNCHANGED <<save_summary_steps, restore_dir, num_epochs, train_size,
                 eval_size, batch_size,
                 weights, epoch, num_steps, best_eval_acc, metrics,
                 last_ckpts, best_ckpts, best_json, last_json, accs>>

\* evaluate() returns the metrics of the epoch; acc is the accuracy it measured
EndEval(acc) ==
  /\ pc = "Eval"
  /\ i = num_steps
  /\ metrics' = [accuracy |-> acc, epoch |-> epoch + 1]
  /\ accs' = Append(accs, acc)
  /\ pc' = "MaybeSaveBest"
  /\ log' = Append(log, Stage("EvalEpoch", epoch + 1))
  /\ UNCHANGED <<summaries, metric_count>>
  /\ UNCHANGED pipe_vars
  /\ UNCHANGED <<save_summary_steps, restore_dir, num_epochs, train_size,
                 eval_size, batch_size,
                 weights, epoch, num_steps, i, it_left, best_eval_acc,
                 last_ckpts, best_ckpts, best_json, last_json, error>>

WrittenJsonStale(d, old) == old

\* save_dict_to_json(d, json_path): the file holds d, whatever it held before
WrittenJson(d, old) == d

IsNewBestStrict(eval_acc, best) == eval_acc > best

\* if eval_acc >= best_eval_acc
IsNewBest(eval_acc, best) == eval_acc >= best

\* "If best_eval, best_save_path": record the accuracy, save with best_saver
\* and write metrics_eval_best_weights.json
MaybeSaveBest ==
  /\ pc = "MaybeSaveBest"
  /\ IF IsNewBest(metrics.accuracy, best_eval_acc)
       THEN /\ best_eval_acc' = metrics.accuracy
            /\ best_ckpts' = SaverSave(best_ckpts, MaxToKeepBest,
                                       [tag |-> epoch + 1, state |-> weights])
            /\ best_json' = WrittenJson(metrics, best_json)
       ELSE UNCHANGED <<best_eval_acc, best_ckpts, best_json>>
  /\ pc' = "SaveLastJson"
  /\ log' = Append(log, Stage("MaybeSaveBest", epoch + 1))
  /\ UNCHANGED <<summaries, metric_count>>
  /\ UNCHANGED pipe_vars
  /\ UNCHANGED <<save_summary_steps, restore_dir, num_epochs, train_size,
                 eval_size, batch_size,
                 weights, epoch, num_steps, i, it_left, metrics,
                 last_ckpts, last_json, accs, error>>

\* "Save latest eval metrics in a json file"; the loop body ends
SaveLastJson ==
  /\ pc = "SaveLastJson"
  /\ last_json' = WrittenJson(metrics, last_json)
  /\ epoch' = epoch + 1
  /\ pc' = "EpochLoop"
  /\ UNCHANGED <<summaries, metric_count, log>>
  /\ UNCHANGED pipe_vars
  /\ UNCHANGED <<save_summary_steps, restore_dir, num_epochs, train_size,
                 eval_size, batch_size,
                 weights, num_steps, i, it_left, best_eval_acc, metrics,
                 last_ckpts, best_ckpts, best_json, accs, error>>

\* range(params.num_epochs) is exhausted: train_and_evaluate returns
Finish ==
  /\ pc = "EpochLoop"
  /\ epoch >= num_epochs
  /\ pc' = "Done"
  /\ UNCHANGED <<summaries, metric_count, log>>
  /\ UNCHANGED pipe_vars
  /\ UNCHANGED <<save_summary_steps, restore_dir, num_epochs, train_size,
                 eval_size, batch_size,
                 weights, epoch, num_steps, i, it_left, best_eval_acc, metrics,
                 last_ckpts, best_ckpts, best_json, last_json, accs, error>>

\* the model step of a training iteration raises (any error of sess.run other
\* than the end of the input)
TrainStepFails ==
  /\ pc = "Train"
  /\ i < num_steps
  /\ it_left > 0
  /\ pc' = Propagate(pc)
  /\ error' = "StepError"
  /\ UNCHANGED <<summaries, metric_count, log>>
  /\ UNCHANGED pipe_vars
  /\ UNCHANGED <<save_summary_steps, restore_dir, num_epochs, train_size,
                 eval_size, batch_size,
                 weights, epoch, num_steps, i, it_left, best_eval_acc, metrics,
                 last_ckpts, best_ckpts, best_json, last_json, accs>>

\* last_saver.save raises (disk full, permission)
SaveLastFails ==
  /\ pc = "SaveLast"
  /\ pc' = Propagate(pc)
  /\ error' = "SaveError"
  /\ UNCHANGED <<summaries, metric_count, log>>
  /\ UNCHANGED pipe_vars
  /\ UNCHANGED <<save_summary_steps, restore_dir, num_epochs, train_size,
                 eval_size, batch_size,
                 weights, epoch, num_steps, i, it_left, best_eval_acc, metrics,
                 last_ckpts, best_ckpts, best_json, last_json, accs>>

\* an evaluation step raises
EvalStepFails ==
  /\ pc = "Eval"
  /\ i < num_steps
  /\ it_left > 0
  /\ pc' = Propagate(pc)
  /\ error' = "StepError"
  /\ UNCHANGED <<summaries, metric_count, log>>
  /\ UNCHANGED pipe_vars
  /\ UNCHANGED <<save_summary_steps, restore_dir, num_epochs, train_size,
                 eval_size, batch_size,
                 weights, epoch, num_steps, i, it_left, best_eval_acc, metrics,
                 last_ckpts, best_ckpts, best_json, last_json, accs>>

\* best_saver.save raises: best_eval_acc has been assigned, nothing is saved
SaveBestFails ==
  /\ pc = "MaybeSaveBest"
  /\ IsNewBest(metrics.accuracy, best_eval_acc)
  /\ best_eval_acc' = metrics.accuracy
  /\ pc' = Propagate(pc)
  /\ error' = "SaveError"
  /\ UNCHANGED <<summaries, metric_count, log>>
  /\ UNCHANGED pipe_vars
  /\ UNCHANGED <<save_summary_steps, restore_dir, num_epochs, train_size,
                 eval_size, batch_size,
                 weights, epoch, num_steps, i, it_left, metrics,
                 last_ckpts, best_ckpts, best_json, last_json, accs>>

OrchNext(accuracies) ==
  \/ RestoreIfRequested
  \/ InitVariables
  \/ BeginTrain
  \/ TrainStep
  \/ EndTrain
  \/ SaveLast
  \/ BeginEval
  \/ EvalStep
  \/ \E acc \in accuracies : EndEval(acc)
  \/ MaybeSaveBest
  \/ SaveLastJson
  \/ Finish
  \/ TrainStepFails
  \/ SaveLastFails
  \/ EvalStepFails
  \/ SaveBestFails

\* ---------------------------------------------------------- input_data.py
\* A line is a sequence of characters, a token a non-empty sequence of
\* characters.  tf.string_split([string]).values: the maximal runs of
\* non-blank characters, in order; empty tokens are skipped.
RECURSIVE SplitFrom(_, _, _)
SplitFrom(line, cur, acc) ==
  IF line = <<>>
    THEN IF cur = <<>> THEN acc ELSE Append(acc, cur)
    ELSE IF Head(line) = " "
      THEN SplitFrom(Tail(line), <<>>, IF cur = <<>> THEN acc ELSE Append(acc, cur))
      ELSE SplitFrom(Tail(line), Append(cur, Head(line)), acc)

StringSplit(line) == SplitFrom(line, <<>>, <<>>)

\* the vocabulary files of the run: one token per line
WordsTxt == << <<"a">>, <<"b">>, <<"c">>, <<"d">>, <<"e">> >>
TagsTxt == << <<"O">>, <<"B">>, <<"I">> >>
PadWordToken == <<"<", "p", "a", "d", ">">>
PadTagToken == <<"O">>

\* tf.contrib.lookup.index_table_from_file(path, num_oov_buckets)
IndexTableFromFile(keys, buckets) == [keys |-> keys, num_oov_buckets |-> buckets]

vocab_words == IndexTableFromFile(WordsTxt, WordsOovBuckets)
vocab_tags == IndexTableFromFile(TagsTxt, TagsOovBuckets)

\* the stable hash that assigns an out-of-vocabulary token to a bucket
Fingerprint(token) == Len(token)

\* table.lookup(token): the line index of the token in the file; a token not
\* in the file goes to an OOV bucket, or to default_value when there is none
TableLookup(table, token) ==
  IF \E k \in 1..Len(table.keys) : table.keys[k] = token
    THEN (CHOOSE k \in 1..Len(table.keys) : table.keys[k] = token) - 1
    ELSE IF table.num_oov_buckets > 0
      THEN Len(table.keys) + (Fingerprint(token) % table.num_oov_buckets)
      ELSE DefaultValue

\* table.size(): the keys and the OOV buckets
TableSize(table) == Len(table.keys) + table.num_oov_buckets

id_pad_word == TableLookup(vocab_words, PadWordToken)
id_pad_tag == TableLookup(vocab_tags, PadTagToken)

\* load_dataset_from_text(path_txt, vocab): one element per line, the ids of
\* its tokens
LoadDatasetFromText(lines, vocab) ==
  [k \in 1..Len(lines) |->
     LET tokens == StringSplit(lines[k])
     IN  [j \in 1..Len(tokens) |-> TableLookup(vocab, tokens[j])]]

\* tf.data.Dataset.zip((sentences, tags)): ends with the shorter dataset
Zip(sentences, tags) ==
  [k \in 1..(IF Len(sentences) < Len(tags) THEN Len(sentences) ELSE Len(tags))
     |-> [sentence |-> sentences[k], tags |-> tags[k]]]

\* the zipped dataset input_fn batches
Dataset ==
  Zip(LoadDatasetFromText(sentences_file, vocab_words),
      LoadDatasetFromText(tags_file, vocab_tags))

PadLeft(row, L, value) == [j \in 1..(L - Len(row)) |-> value] \o row

\* one component of one element padded on the right to length L
PadRight(row, L, value) == row \o [j \in 1..(L - Len(row)) |-> value]

MaxLen(rows) == Max({0} \cup {Len(rows[j]) : j \in 1..Len(rows)})

\* padded_shapes [None]: every row of a component is padded to the longest
\* row of that component in the batch
PadRows(rows, value) ==
  [j \in 1..Len(rows) |-> PadRight(rows[j], MaxLen(rows), value)]

PaddedBatchTagsAsRead(window, pad_word, pad_tag) ==
  [sentence |-> PadRows([j \in 1..Len(window) |-> window[j].sentence], pad_word),
   tags |-> [j \in 1..Len(window) |-> window[j].tags]]

\* one element of dataset.padded_batch(...): the window's sentences padded
\* with pad_word and its tags padded with pad_tag, each component on its own
PaddedBatch(window, pad_word, pad_tag) ==
  [sentence |-> PadRows([j \in 1..Len(window) |-> window[j].sentence], pad_word),
   tags |-> PadRows([j \in 1..Len(window) |-> window[j].tags], pad_tag)]

\* the examples of the k-th batch (k = 1, 2, ...): batch_size consecutive
\* elements, fewer in a final partial batch
Window(ds, bsize, k) ==
  SubSeq(ds, (k - 1) * bsize + 1,
         IF k * bsize < Len(ds) THEN k * bsize ELSE Len(ds))

\* the k-th element the padded_batch stage yields, with its upstream position
BatchAt(k) ==
  [pos |-> k,
   data |-> PaddedBatch(Window(Dataset, pipe_batch_size, k), id_pad_word, id_pad_tag)]

UpstreamBatches == NumBatches(Len(Dataset), pipe_batch_size)

\* buffer_size = 100 if is_training else 1
BufferSize(training) == IF training THEN TrainBufferSize ELSE EvalBufferSize

\* the state of the iterator before iterator_init_op has run
PipeFresh ==
  /\ it_inits = 0
  /\ up_pos = 0
  /\ reservoir = {}
  /\ slot = <<>>
  /\ prod_done = FALSE
  /\ out = <<>>
  /\ it_end = FALSE
  /\ prev_consumed = 0
  /\ shuffled = <<>>
  /\ upstream = <<>>

\* input_fn(is_training, sentences, tags, batch_size, pad_word, pad_tag) over
\* the given files
PipeInit(files, bsizes, buffers) ==
  /\ \E f \in files :
       /\ sentences_file = [k \in 1..Len(f) |-> f[k][1]]
       /\ tags_file = [k \in 1..Len(f) |-> f[k][2]]
  /\ pipe_batch_size \in bsizes
  /\ is_training \in BOOLEAN
  /\ buffer_size \in (IF is_training THEN buffers ELSE {BufferSize(FALSE)})
  /\ PipeFresh

\* no pipeline is observed: the files are empty and the iterator is never run
PipeIdle ==
  /\ sentences_file = <<>>
  /\ tags_file = <<>>
  /\ pipe_batch_size = InputBatchSize
  /\ is_training = FALSE
  /\ buffer_size = BufferSize(FALSE)
  /\ PipeFresh

\* where a newly initialised iterator starts reading, given where the previous
\* one stood
RestartKeep(pos) == pos
Restart(pos) == 0

\* sess.run(model_spec['iterator_init_op']): a new iterator over the dataset;
\* the shuffle buffer, the prefetch buffer and the read position start afresh
\* and the iterator reads the elements padded_batch makes of the files
IteratorInit ==
  /\ it_inits < MaxInits
  /\ it_inits' = it_inits + 1
  /\ up_pos' = Restart(up_pos)
  /\ reservoir' = {}
  /\ slot' = <<>>
  /\ prod_done' = FALSE
  /\ out' = <<>>
  /\ it_end' = FALSE
  /\ prev_consumed' = Len(out)
  /\ shuffled' = <<>>
  /\ upstream' = [k \in 1..UpstreamBatches |-> BatchAt(k)]
  /\ UNCHANGED <<sentences_file, tags_file, pipe_batch_size, is_training,
                 buffer_size>>
  /\ UNCHANGED orch_vars

ShuffleFillTargetLoose(n) == n + 1

\* how many elements the shuffle stage holds before it draws one
ShuffleFillTarget(n) == n

\* the batches the shuffle stage pulls when asked for an element: it fills its
\* buffer from upstream until it holds buffer_size or upstream is exhausted
ShufflePulled ==
  LET room == ShuffleFillTarget(buffer_size) - Cardinality(reservoir)
      last == IF up_pos + room < Len(upstream) THEN up_pos + room
              ELSE Len(upstream)
  IN  up_pos + 1 .. last

ShuffleDrawKeep(buffered, b) == buffered

\* the shuffle buffer after the element drawn at random has been handed out
ShuffleDraw(buffered, b) == buffered \ {b}

\* one turn of the prefetch thread: while the prefetch buffer has room it asks
\* the shuffle stage for the next element, which fills its buffer and hands
\* out one of the buffered batches chosen at random
Produce ==
  /\ it_inits > 0
  /\ ~prod_done
  /\ Len(slot) < PrefetchBufferSize
  /\ LET filled == reservoir \cup {upstream[k] : k \in ShufflePulled}
     IN  /\ up_pos' = up_pos + Cardinality(ShufflePulled)
         /\ IF filled = {}
              THEN /\ prod_done' = TRUE
                   /\ UNCHANGED <<reservoir, slot, shuffled>>
              ELSE /\ \E b \in filled :
                        /\ slot' = Append(slot, b)
                        /\ shuffled' = Append(shuffled, b)
                        /\ reservoir' = ShuffleDraw(filled, b)
                   /\ UNCHANGED prod_done
  /\ UNCHANGED <<sentences_file, tags_file, pipe_batch_size, is_training,
                 buffer_size, it_inits, out, it_end, prev_consumed, upstream>>
  /\ UNCHANGED orch_vars

\* iterator.get_next() evaluated by a sess.run: the oldest prefetched batch, or
\* OutOfRangeError once the sequence has ended; it waits while the prefetch
\* buffer is empty and the thread is still producing
GetNext ==
  /\ it_inits > 0
  /\ ~it_end
  /\ IF slot # <<>>
       THEN /\ out' = Append(out, Head(slot))
            /\ slot' = Tail(slot)
            /\ UNCHANGED it_end
       ELSE /\ prod_done
            /\ it_end' = TRUE
            /\ UNCHANGED <<out, slot>>
  /\ UNCHANGED <<sentences_file, tags_file, pipe_batch_size, is_training,
                 buffer_size, it_inits, up_pos, reservoir, prod_done, prev_consumed,
                 shuffled, upstream>>
  /\ UNCHANGED orch_vars

PipeNext ==
  \/ IteratorInit
  \/ Produce
  \/ GetNext

\* lines of the text files: (sentence line, tag line) of one example
Examples ==
  { << <<"a", " ", "b", " ", "c">>, <<"O", " ", "B", " ", "I">> >>,
    << <<"d", " ", "e">>, <<"B", " ", "O">> >>,
    << <<"z", "z", " ", " ", "a">>, <<"X", " ", "O">> >>,
    << <<>>, <<>> >>,
    << <<"d", " ", "e">>, <<"O">> >> }

\* files of distinct well-formed examples, for the order of the batches
OrderedExamples ==
  << << <<"a", " ", "b", " ", "c">>, <<"O", " ", "B", " ", "I">> >>,
     << <<"d", " ", "e">>, <<"B", " ", "O">> >>,
     << <<"e">>, <<"I">> >>,
     << <<"b", " ", "a">>, <<"O", " ", "O">> >>,
     << <<"c">>, <<"B">> >> >>

SeqsUpTo(S, n) == UNION {[1..m -> S] : m \in 0..n}

\* ----------------------------------------------------------- specifications
\* the configuration of the step-count example: train_size 11, batch_size 5
Init == OrchInit(0..MaxEpochs, {11}, {4}, {5}, {2}) /\ PipeIdle
Next == OrchNext(Accuracies)
Spec == Init /\ [][Next]_vars

\* checkpoint rotation: more epochs than last_saver keeps, coarse accuracies
InitRotation == OrchInit(0..MaxRotationEpochs, {11}, {4}, {5}, {2}) /\ PipeIdle
NextRotation == OrchNext(CoarseAccuracies)
SpecRotation == InitRotation /\ [][NextRotation]_vars

\* The same runs under the scheduling of a sequential program: the
\* interpreter always executes the next statement, so a step that is
\* possible is eventually taken.
SpecOrder == InitRotation /\ [][NextRotation]_vars /\ WF_vars(NextRotation)

\* step counts: one epoch over every dataset size and batch size in the
\* bounds; the datasets hold exactly train_size / eval_size examples
InitSteps ==
  OrchInit({1}, 0..MaxSize, 0..MaxSize, 1..MaxBatchSize, 1..MaxSummarySteps) /\ PipeIdle
NextSteps == OrchNext(CoarseAccuracies)
SpecSteps == InitSteps /\ [][NextSteps]_vars

\* no run of train_and_evaluate is observed
OrchIdle == OrchInit({0}, {0}, {0}, {InputBatchSize}, {1}) /\ restore_dir = None

\* the evaluation pipeline over every file of at most MaxLines examples
InitBatch ==
  /\ OrchIdle
  /\ PipeInit(SeqsUpTo(Examples, MaxLines), 1..MaxPipeBatch, {})
  /\ ~is_training
SpecBatch == InitBatch /\ [][PipeNext]_vars

\* the training and the evaluation pipeline over files of distinct examples;
\* the training buffer of 100 exceeds every batch count within the bounds, so
\* buffers of 1..MaxBufferSize are run as well
InitPipe ==
  /\ OrchIdle
  /\ PipeInit({SubSeq(OrderedExamples, 1, n) : n \in 0..MaxPipeLines},
              1..MaxPipeBatch, {BufferSize(TRUE)} \cup 1..MaxBufferSize)
SpecPipe == InitPipe /\ [][PipeNext]_vars

\* The same pipeline with its scheduling: prefetch runs its producer in a
\* background thread of its own, which takes a turn whenever it can.
SpecPrefetch == InitPipe /\ [][PipeNext]_vars /\ WF_vars(Produce)

\* ------------------------------------------------------------------ claims
Tags(ckpts) == [k \in 1..Len(ckpts) |-> ckpts[k].tag]

\* the epochs whose MaybeSaveBest step has run
BestDecided == Len(accs) > 0 /\ pc # "MaybeSaveBest"

\* the latest epoch whose eval accuracy is the maximum of the history
LatestArgMax(h) ==
  Max({e \in 1..Len(h) : \A f \in 1..Len(h) : h[f] <= h[e]})

\* C1: after any error-free sequence of completed epochs the single retained
\* best checkpoint is tagged with the latest epoch whose eval accuracy equals
\* the maximum seen (ties go to the most recent epoch; a strictly lower
\* accuracy never replaces it).
C1_BestIsLatestArgMax ==
  (BestDecided /\ error = None) =>
     /\ Len(best_ckpts) = 1
     /\ best_ckpts[1].tag = LatestArgMax(accs)
     /\ best_eval_acc = accs[LatestArgMax(accs)]

C1_Witness ==
  /\ pc = "Done"
  /\ accs = <<5, 7, 6, 9, 8>>
  /\ Tags(best_ckpts) = <<4>>

\* number of last_saver.save calls of the run so far
SavedEpochs ==
  IF pc \in {"BeginEval", "Eval", "MaybeSaveBest", "SaveLastJson"}
    THEN epoch + 1 ELSE epoch

\* C2: after n saved epochs the 'last' retention set holds exactly the
\* checkpoints of epochs max(1, n-4)..n, oldest first, never more than 5.
C2_LastRotation ==
  error = None =>
     LET n == SavedEpochs
         lo == IF n - 4 > 1 THEN n - 4 ELSE 1
     IN  /\ Len(last_ckpts) <= 5
         /\ Tags(last_ckpts) = [k \in 1..(n - lo + 1) |-> lo + k - 1]

C2_Witness ==
  /\ pc = "Done"
  /\ epoch = 7
  /\ Tags(last_ckpts) = <<3, 4, 5, 6, 7>>

\* C3: when a restore directory is configured the first training step of the
\* first epoch executes in the restored model state, otherwise in the freshly
\* initialised one.
C3_FirstStepFromRestored ==
  (pc = "Train" /\ epoch = 0 /\ i = 0) =>
     weights = IF restore_dir # None THEN RestoredWeights ELSE FreshWeights

\* C4: the step count used for a train or eval epoch is the dataset size
\* divided by the batch size, rounded up.
C4_NumStepsIsCeil ==
  /\ pc = "Train" => num_steps = CeilDiv(train_size, batch_size)
  /\ pc = "Eval" => num_steps = CeilDiv(eval_size, batch_size)

\* C5: with the configured sizes equal to the true dataset sizes the
\* pipeline is never exhausted before the num_steps iterations complete.
C5_NeverExhausted == error # "OutOfRange"

\* the batches the shuffle stage has emitted since the last initialisation,
\* in the order it emitted them
Emitted == out \o slot

\* every batch the pipeline holds or has delivered
Produced == reservoir \cup {Emitted[k] : k \in 1..Len(Emitted)}

\* C6 as stated: with the buffer sizes input_fn sets (100 in training, 1 in
\* evaluation) the batch at output position i was pulled from an upstream
\* position p with i <= p <= i + N - 1.
C6_PulledWithinWindow ==
  buffer_size = BufferSize(is_training) =>
    \A k \in 1..Len(Emitted) :
       LET pos_i == k - 1
           pos_p == Emitted[k].pos - 1
       IN  pos_i <= pos_p /\ pos_p <= pos_i + buffer_size - 1

\* C6 (amended): the batch at output position i was pulled from an upstream
\* position p <= i + N - 1, never more than N-1 positions later; with N = 1
\* it is exactly position i.
C6_PulledNotLater ==
  \A k \in 1..Len(Emitted) :
     LET pos_i == k - 1
         pos_p == Emitted[k].pos - 1
     IN  /\ pos_p <= pos_i + buffer_size - 1
         /\ buffer_size = 1 => pos_p = pos_i

C6_Witness ==
  /\ buffer_size = 2
  /\ \E k \in 1..Len(out) : out[k].pos - 1 = (k - 1) + buffer_size - 1
  /\ \E k \in 1..Len(out) : out[k].pos - 1 < k - 1

\* a component of a batch is the component of its window padded on the right
\* to the longest original row with the pad value
PaddedFrom(rows, originals, pad) ==
  /\ Len(rows) = Len(originals)
  /\ \E L \in 0..MaxLen(rows) :
       /\ \A j \in 1..Len(rows) : Len(rows[j]) = L /\ Len(originals[j]) <= L
       /\ \E j \in 1..Len(rows) : Len(originals[j]) = L
       /\ \A j \in 1..Len(rows) :
            /\ SubSeq(rows[j], 1, Len(originals[j])) = originals[j]
            /\ \A q \in Len(originals[j]) + 1 .. L : rows[j][q] = pad

SentenceIds == LoadDatasetFromText(sentences_file, vocab_words)
TagIds == LoadDatasetFromText(tags_file, vocab_tags)

\* the indices of the examples of the k-th batch
WindowIndices(k) ==
  [j \in 1..(IF k * pipe_batch_size < Len(SentenceIds)
             THEN pipe_batch_size
             ELSE Len(SentenceIds) - (k - 1) * pipe_batch_size)
     |-> (k - 1) * pipe_batch_size + j]

\* C7: in every batch all rows have one length L, the maximum original length
\* of the examples of its window; each row begins with its example unchanged
\* and holds the pad id, and nothing else, after it.
C7_PaddingInvariant ==
  \A b \in Produced :
     LET idx == WindowIndices(b.pos)
     IN  /\ PaddedFrom(b.data.sentence,
                       [j \in 1..Len(idx) |-> SentenceIds[idx[j]]], id_pad_word)
         /\ PaddedFrom(b.data.tags,
                       [j \in 1..Len(idx) |-> TagIds[idx[j]]], id_pad_tag)

C7_Witness ==
  /\ pipe_batch_size = 2
  /\ id_pad_word = 5
  /\ sentences_file = << <<"a", " ", "b", " ", "c">>, <<"d", " ", "e">> >>
  /\ it_end
  /\ Len(out) = 1
  /\ out[1].data.sentence = << <<0, 1, 2>>, <<3, 4, 5>> >>

\* C8: when every example of a batch's window has as many tags as words, the
\* sentence and tag components hold the same examples in the same order and
\* every row has the same padded length in both.
C8_SentenceTagLengths ==
  \A b \in Produced :
     LET idx == WindowIndices(b.pos)
     IN  (\A j \in 1..Len(idx) : Len(SentenceIds[idx[j]]) = Len(TagIds[idx[j]]))
         => /\ Len(b.data.sentence) = Len(idx)
            /\ Len(b.data.tags) = Len(idx)
            /\ \A j \in 1..Len(idx) :
                 /\ Len(b.data.sentence[j]) = Len(b.data.tags[j])
                 /\ Len(b.data.sentence[j]) = Len(b.data.sentence[1])
                 /\ SubSeq(b.data.sentence[j], 1, Len(SentenceIds[idx[j]]))
                      = SentenceIds[idx[j]]
                 /\ SubSeq(b.data.tags[j], 1, Len(TagIds[idx[j]]))
                      = TagIds[idx[j]]

C8_Witness ==
  /\ pipe_batch_size = 2
  /\ Len(out) = 1
  /\ out[1].data.sentence = << <<0, 1, 2>>, <<3, 4, 5>> >>
  /\ out[1].data.tags = << <<0, 1, 2>>, <<1, 0, 0>> >>

IdsWithin(rows, size) ==
  \A j \in 1..Len(rows) : \A q \in 1..Len(rows[j]) :
     0 <= rows[j][q] /\ rows[j][q] < size

\* C9: every lookup of either vocabulary, of tokens of the files and of the pad
\* tokens, returns an id in [0, size()).
C9_LookupInRange ==
  \A b \in Produced :
     /\ IdsWithin(b.data.sentence, TableSize(vocab_words))
     /\ IdsWithin(b.data.tags, TableSize(vocab_tags))

\* C10: with shuffling disabled the batches are delivered in upstream order,
\* from the first batch after every initialisation, whatever the previous
\* iterator had consumed; a pass that ends has delivered every batch.
C10_RestartInOrder ==
  buffer_size = 1 =>
     /\ \A k \in 1..Len(Emitted) : Emitted[k] = BatchAt(k)
     /\ it_end => Len(out) = UpstreamBatches

C10_Witness ==
  /\ buffer_size = 1
  /\ it_inits = 2
  /\ prev_consumed = 2
  /\ it_end
  /\ Len(out) = 4
  /\ out[1].pos = 1

MetricsOf(e) == [accuracy |-> accs[e], epoch |-> e]

\* C12: after every completed epoch e metrics_eval_last_weights.json holds the
\* eval metrics of epoch e, and metrics_eval_best_weights.json those of the
\* epoch whose checkpoint best_saver retains (none before the first best save).
C12_JsonSnapshots ==
  error = None =>
     /\ last_json = IF epoch = 0 THEN NoMetrics ELSE MetricsOf(epoch)
     /\ best_ckpts = <<>> => best_json = NoMetrics
     /\ best_ckpts # <<>> => best_json = MetricsOf(best_ckpts[Len(best_ckpts)].tag)

C12_Witness ==
  /\ pc = "Done"
  /\ accs = <<9, 5, 7>>
  /\ last_json = [accuracy |-> 7, epoch |-> 3]
  /\ best_json = [accuracy |-> 9, epoch |-> 1]

\* ------------------------------------------------------------------- C13
StageNames == <<"TrainEpoch", "SaveLast", "EvalEpoch", "MaybeSaveBest">>

\* the stages of a complete run of n epochs, in order
ExpectedLog(n, restored) ==
  (IF restored THEN <<Stage("Restore", 0)>> ELSE <<>>) \o
  [k \in 1..(4 * n) |-> Stage(StageNames[((k - 1) % 4) + 1], ((k - 1) \div 4) + 1)]

IsPrefix(a, b) == Len(a) <= Len(b) /\ a = SubSeq(b, 1, Len(a))

\* C13: in a run without error the completed stages are, at every moment,
\* an initial part of Restore (only if configured, once, first) followed by
\* TrainEpoch(e), SaveLast(e), EvalEpoch(e), MaybeSaveBest(e) for
\* e = 1..num_epochs in increasing order; Done is entered only with all of
\* them completed and epoch = num_epochs; and every run ends in Done unless
\* an error aborts it.
C13_StageOrder ==
  /\ [](error = None => IsPrefix(log, ExpectedLog(num_epochs, restore_dir # None)))
  /\ [](pc = "Done" => /\ log = ExpectedLog(num_epochs, restore_dir # None)
                       /\ epoch = num_epochs)
  /\ <>[](pc = "Done" \/ error # None)

C13_Witness ==
  /\ pc = "Done" /\ num_epochs = 3 /\ restore_dir # None
  /\ Len(log) = 13
  /\ log[1].stage = "Restore" /\ log[13] = Stage("MaybeSaveBest", 3)

\* ------------------------------------------------------------------- C14
\* the consumer can ask for a batch and upstream still has one for it
RequestPending ==
  /\ it_inits > 0 /\ ~it_end
  /\ (up_pos < Len(upstream) \/ reservoir # {})

\* C14: the prefetch buffer never holds more than one batch; while it holds
\* one the producer does not advance (nothing is pulled from upstream, drawn
\* from the shuffle buffer or handed out) until the consumer has taken it;
\* what the consumer received followed by what is buffered is exactly what
\* the shuffle stage handed out, in that order; and while upstream has
\* batches a batch eventually becomes available to the consumer.
C14_PrefetchLookAhead ==
  /\ [](Len(slot) <= 1)
  /\ [][(slot # <<>> /\ it_inits' = it_inits) =>
          /\ UNCHANGED <<up_pos, reservoir, shuffled, prod_done>>
          /\ slot' = Tail(slot)]_vars
  /\ [](shuffled = out \o slot)
  /\ (RequestPending ~> slot # <<>>)

C14_Witness ==
  /\ Len(slot) = 1 /\ Len(out) = 2 /\ reservoir # {} /\ ~prod_done
  /\ shuffled = out \o slot
  /\ out[1].pos > out[2].pos

\* ------------------------------------------------------------------- C15
\* row is example followed by nothing but pad
IsPaddedFormOf(row, example, pad) ==
  /\ Len(row) >= Len(example)
  /\ SubSeq(row, 1, Len(example)) = example
  /\ \A q \in Len(example) + 1 .. Len(row) : row[q] = pad

\* C15: once the iterator over n examples with batch size b is exhausted, it
\* has delivered m batches with (m - 1) * b < n <= m * b (m = 0 for n = 0),
\* i.e. m = ceil(n / b); every batch but the last has b rows, the last has the
\* n - (m - 1) * b remaining ones (n mod b when b does not divide n); and row
\* j of the k-th batch is the padded form of example (k - 1) * b + j.
C15_BatcherCoversInput ==
  it_end =>
    LET n == Len(SentenceIds)
        b == pipe_batch_size
        m == Len(out)
    IN  /\ m = CeilDiv(n, b)
        /\ (m - 1) * b < n \/ (m = 0 /\ n = 0)
        /\ n <= m * b
        /\ \A k \in 1..m :
             LET rows == out[k].data.sentence
             IN  /\ Len(out[k].data.tags) = Len(rows)
                 /\ k < m => Len(rows) = b
                 /\ k = m => Len(rows) = n - (m - 1) * b
                 /\ (k = m /\ n % b # 0) => Len(rows) = n % b
                 /\ \A j \in 1..Len(rows) :
                      /\ IsPaddedFormOf(rows[j], SentenceIds[(k - 1) * b + j],
                                        id_pad_word)
                      /\ IsPaddedFormOf(out[k].data.tags[j],
                                        TagIds[(k - 1) * b + j], id_pad_tag)

C15_Witness ==
  /\ it_end /\ pipe_batch_size = 2 /\ Len(SentenceIds) = 3
  /\ Len(out) = 2
  /\ Len(out[1].data.sentence) = 2
  /\ Len(out[2].data.sentence) = 1

\* ------------------------------------------------------------------- C16
\* the global step before step j (zero-based) of the current epoch: every
\* earlier epoch of the run has made num_steps updates
GlobalStepBefore(j) == epoch * num_steps + j

BatchSizes(n, bsize) ==
  [k \in 1..NumBatches(n, bsize) |->
     Len(Window([j \in 1..n |-> j], bsize, k))]

Min(a, b) == IF a <= b THEN a ELSE b

\* C18: within one pass over the upstream batches the shuffle stage hands
\* out no batch twice and nothing it still holds has been handed out; a
\* consumer that has pulled until exhaustion has received every upstream
\* batch exactly once; every draw is made from a buffer refilled to
\* buffer_size batches, or to all that remain when upstream has fewer, so the
\* buffer holds buffer_size batches at most.
C18_ShufflePermutation ==
  /\ \A j, k \in 1..Len(shuffled) : shuffled[j].pos = shuffled[k].pos => j = k
  /\ \A k \in 1..Len(shuffled) :
       /\ shuffled[k] = BatchAt(shuffled[k].pos)
       /\ shuffled[k] \notin reservoir
  /\ it_end =>
       /\ Len(out) = UpstreamBatches
       /\ {out[k].pos : k \in 1..Len(out)} = 1..UpstreamBatches
  /\ Cardinality(reservoir) <= buffer_size
  /\ shuffled # <<>> =>
       /\ Cardinality(reservoir) + 1 =
             Min(buffer_size, UpstreamBatches - (Len(shuffled) - 1))
       /\ up_pos = Len(shuffled) + Cardinality(reservoir)

C18_Witness ==
  /\ it_end /\ buffer_size = 2
  /\ Len(out) = 4
  /\ [k \in 1..4 |-> out[k].pos] = <<2, 1, 4, 3>>

\* ------------------------------------------------------------------- C19
\* C19: in every run, restored or not, the recorded best accuracy is 0 until
\* the first epoch is evaluated and never decreases; the first epoch's
\* accuracy always passes the comparison, so its checkpoint is saved as best;
\* the best set is empty before the first epoch has completed and holds
\* exactly one checkpoint after every completed epoch; and the recorded best
\* accuracy is then the maximum of the eval accuracies of the run so far.
C19_BestAccuracyMonotone ==
  /\ [][best_eval_acc' >= best_eval_acc]_vars
  /\ []((Len(accs) = 0 \/ (Len(accs) = 1 /\ pc = "MaybeSaveBest")) =>
         /\ best_eval_acc = 0
         /\ best_ckpts = <<>>)
  /\ []((Len(accs) = 1 /\ pc = "MaybeSaveBest") =>
         IsNewBest(metrics.accuracy, best_eval_acc))
  /\ []((BestDecided /\ error = None) =>
         /\ Len(best_ckpts) = 1
         /\ Len(accs) = 1 => best_ckpts[1].tag = 1
         /\ best_eval_acc = Max({accs[e] : e \in 1..Len(accs)}))

C19_Witness ==
  /\ restore_dir # None
  /\ pc = "Done" /\ accs = <<0, 6, 5>>
  /\ best_eval_acc = 6
  /\ Len(best_ckpts) = 1

====
